---- MODULE Spec2Model ----
(***************************************************************************)
(* mqtt-zenoh-relay: the relay engine of src/main.rs.                      *)
(*                                                                         *)
(* main() issues the broker subscriptions, opens the overlay session,      *)
(* declares one overlay subscriber per relayed topic and spawns one        *)
(* supervised zenoh_subscribe_loop for it, then spawns the supervised      *)
(* mqtt_receive_loop and joins it.                                         *)
(*                                                                         *)
(* Strings are sequences of one-character strings, so that format!() is a  *)
(* real concatenation.  Option<T> is a sequence of length 0 or 1.          *)
(***************************************************************************)
EXTENDS Integers, Sequences, FiniteSets, TLC

VARIABLES
    config,             \* AppConfig: mqtt.subscriptions, mqtt.mqtt_relay_prefix, zenoh.relayed_topics
    main_pc,            \* where main() is
    main_i,             \* index of the for loop main() is in
    requests,           \* the client's bounded request channel (AsyncClient::new(_, 10))
    mqtt_wire,          \* publish packets the event loop has sent to the broker, in order
    mqtt_pc,            \* where the outbound task (supervisor + mqtt_receive_loop) is
    notification,       \* kind of the poll result being matched on (live inside the match only)
    publish,            \* the Incoming::Publish being handled
    sub_i,              \* index of the for loop of the ConnAck arm
    reissued,           \* filters the ConnAck arm has subscribed for its event (kept until the next poll)
    publisher_table,    \* HashMap<String, Publisher>: key expression -> publisher
    publishers,         \* the declared publishers that have not been dropped
    publisher,          \* the local `publisher` of the else branch (Option)
    next_publisher,     \* identities of the publishers declared so far
    zenoh_wire,         \* puts made on the overlay, in order
    z_pc,               \* where each inbound task (supervisor + zenoh_subscribe_loop) is
    z_chan,             \* the flume channel of each declared subscriber
    z_sample,           \* the `sample` local of each inbound loop (Option)
    n_msgs,             \* broker messages delivered so far
    n_connacks,         \* ConnAck events delivered so far
    n_errors,           \* errors poll has returned so far
    n_echoed,           \* packets of mqtt_wire the broker has delivered back to the relay
    n_samples           \* overlay samples published by peers so far

vars == <<config, main_pc, main_i, requests, mqtt_wire, mqtt_pc,
          notification, publish, sub_i, reissued, publisher_table, publishers,
          publisher, next_publisher, zenoh_wire, z_pc, z_chan, z_sample,
          n_msgs, n_connacks, n_errors, n_echoed, n_samples>>

main_vars  == <<main_pc, main_i>>
mqtt_vars  == <<mqtt_pc, notification, publish, sub_i, reissued, publisher_table,
                publishers, publisher, next_publisher, zenoh_wire>>
zenoh_vars == <<z_pc, z_sample>>
env_vars   == <<n_msgs, n_connacks, n_errors, n_echoed, n_samples>>

----------------------------------------------------------------------------
(* Bounds of the model *)

MaxSubscriptions == 6   \* the larger number of configured broker subscriptions
MaxEvents == 3          \* inputs in all: broker messages, ConnAcks, poll errors and overlay samples

(* Program constants *)

MQTT_REQUEST_CAP == 10  \* AsyncClient::new(mqtt_options, 10)

----------------------------------------------------------------------------
(* Values *)

None == <<>>
Some(x) == <<x>>

MQTT_LOGGER_QOS == "AtMostOnce"

\* Broker topics of the messages the broker delivers.
MqttTopics == { <<"b">>, <<"a", "/", "b">> }

\* Key expressions of the samples peers publish on the overlay.
KeyExprs == { <<"a">>, <<"a", "/", "b">> }

\* Encodings a peer's sample can carry.
Encodings == { "AppOctetStream", "TextPlain" }

\* The payload bytes of the n-th message of a fabric.
Payload(n) == <<n>>

\* mqtt.subscriptions of n filters.
Subscriptions(n) == [i \in 1..n |-> <<"f", i>>]

\* The configurations: one broker subscription (the default, "#"), many, or one
\* more than the request channel holds; the prefix set or not; two relayed
\* topics that no sample is delivered to both of and whose retain flags differ.
Configs ==
    { [subscriptions |-> Subscriptions(n),
       mqtt_relay_prefix |-> p,
       relayed_topics |-> << [name |-> <<"a", "/", "b">>, retained |-> TRUE],
                             [name |-> <<"a">>, retained |-> FALSE] >>] :
        n \in {1, MaxSubscriptions, MQTT_REQUEST_CAP + 1}, p \in {None, Some(<<"a">>)} }

ZSubs == 1..2

\* Whether a subscriber declared on `name` receives a sample put on `key`
\* (the relayed topics of the model have no wildcard chunk).
key_expr_intersects(name, key) == name = key

----------------------------------------------------------------------------
(* The code's pure steps *)

\* A translation that leaves out the separator.
zenoh_topic_no_separator(mqtt_relay_prefix, topic) ==
    IF mqtt_relay_prefix # None THEN mqtt_relay_prefix[1] \o topic ELSE topic

\* main.rs 160-163: the overlay key expression a broker topic is put on.
zenoh_topic(mqtt_relay_prefix, topic) ==
    IF mqtt_relay_prefix # None
    THEN mqtt_relay_prefix[1] \o <<"/">> \o topic
    ELSE topic

\* main.rs 165-166: the Value put on the overlay for a broker payload.
value(payload) ==
    [[payload |-> payload, encoding |-> "AppOctetStream"] EXCEPT !.encoding = "TextPlain"]

\* main.rs 240: Vec<u8>::try_from(Value), an error unless the value is raw bytes.
try_into(v) == IF v.encoding = "AppOctetStream" THEN Some(v.payload) ELSE None

\* A receive that takes the newest sample instead of the oldest.
recv_async_newest(chan) ==
    [sample |-> chan[Len(chan)], rest |-> SubSeq(chan, 1, Len(chan) - 1)]

\* A receive that leaves the sample in the channel.
recv_async_peek(chan) == [sample |-> Head(chan), rest |-> chan]

\* main.rs 239: recv_async takes the oldest sample off the subscriber's channel.
recv_async(chan) == [sample |-> Head(chan), rest |-> Tail(chan)]

\* A publish that strips the configured prefix off the key expression.
publish_request_stripped(i, sample, payload, topic) ==
    LET pre == IF config.mqtt_relay_prefix = None THEN <<>>
               ELSE config.mqtt_relay_prefix[1] \o <<"/">>
        key == sample.key_expr
    IN  [kind |-> "Publish",
         topic |-> IF /\ pre # <<>>
                      /\ Len(key) > Len(pre)
                      /\ SubSeq(key, 1, Len(pre)) = pre
                   THEN SubSeq(key, Len(pre) + 1, Len(key))
                   ELSE key,
         qos |-> "AtMostOnce", retain |-> topic.retained, payload |-> payload, via |-> i]

\* A publish that puts the configured prefix before the key expression.
publish_request_prefixed(i, sample, payload, topic) ==
    [kind |-> "Publish",
     topic |-> IF config.mqtt_relay_prefix = None THEN sample.key_expr
               ELSE config.mqtt_relay_prefix[1] \o <<"/">> \o sample.key_expr,
     qos |-> "AtMostOnce", retain |-> topic.retained, payload |-> payload, via |-> i]

\* A publish that takes the retain flag of the first relayed topic.
publish_request_first_retain(i, sample, payload, topic) ==
    [kind |-> "Publish", topic |-> sample.key_expr, qos |-> "AtMostOnce",
     retain |-> config.relayed_topics[1].retained, payload |-> payload, via |-> i]

\* main.rs 241-243: the publish request an inbound loop hands to the client.
\* (`via` is the loop that issued it: bookkeeping, not part of the packet.)
publish_request(i, sample, payload, topic) ==
    [kind |-> "Publish", topic |-> sample.key_expr, qos |-> MQTT_LOGGER_QOS,
     retain |-> topic.retained, payload |-> payload, via |-> i]

\* main.rs 52, 193: the subscribe request for one configured filter.
subscribe_request(subscription) ==
    [kind |-> "Subscribe", topic |-> subscription, qos |-> MQTT_LOGGER_QOS,
     retain |-> FALSE, payload |-> <<>>, via |-> 0]

\* A lookup that never finds the key (as one made with the wrong string would).
table_get_miss(table, key) == None

\* main.rs 167: zenoh_publisher_table.get(&zenoh_topic)
table_get(table, key) == IF key \in DOMAIN table THEN Some(table[key]) ELSE None

\* An insert into a table created anew (a table owned by the loop, not by main).
table_insert_fresh(table, key, p) == [k \in {key} |-> p]

\* main.rs 187: zenoh_publisher_table.insert(zenoh_topic, publisher)
table_insert(table, key, p) ==
    [k \in DOMAIN table \cup {key} |-> IF k = key THEN p ELSE table[k]]

\* A match whose Err arm returns the error of poll.
mqtt_event_arm_returns_err(kind) ==
    CASE kind = "Publish"    -> "publish"
      [] kind = "ConnAck"    -> "connack"
      [] kind = "Disconnect" -> "Ok"
      [] kind = "Err"        -> "Err"
      [] OTHER               -> "poll"

\* main.rs 158-204: the arm of the match each poll result takes, as the place
\* the loop goes to.
mqtt_event_arm(kind) ==
    CASE kind = "Publish"    -> "publish"
      [] kind = "ConnAck"    -> "connack"
      [] kind = "Disconnect" -> "Ok"
      [] OTHER               -> "poll"

\* An inbound supervisor that gives up on an error.
zenoh_supervisor_gives_up(result) == "break"

\* main.rs 105-111: what the inbound supervisor does with the loop's result.
zenoh_supervisor(result) == "restart"

\* An outbound supervisor that breaks on every result.
mqtt_supervisor_break(result) == "break"

\* main.rs 120-139: what the outbound supervisor does with the loop's result.
mqtt_supervisor(result) == IF result = "Ok" THEN "break" ELSE "restart"

\* A put whose error is dropped instead of returned.
put_res_ignored(result) == "poll"

\* main.rs 169-173, 182-186: `?` on the result of publisher.put(value): an
\* error returns from the loop, a success goes on to the next poll.
put_res(result) == IF result = "Ok" THEN "poll" ELSE "Err"

----------------------------------------------------------------------------
(* State after construction: main() is about to issue the first subscription *)

Init ==
    /\ config \in Configs
    /\ main_pc = "mqtt_subscribe"
    /\ main_i = 1
    /\ requests = <<>>
    /\ mqtt_wire = <<>>
    /\ mqtt_pc = "unspawned"
    /\ notification = "None"
    /\ publish = None
    /\ sub_i = 1
    /\ reissued = <<>>
    /\ publisher_table = <<>>
    /\ publishers = {}
    /\ publisher = None
    /\ next_publisher = 1
    /\ zenoh_wire = <<>>
    /\ z_pc = [i \in ZSubs |-> "unspawned"]
    /\ z_chan = [i \in ZSubs |-> <<>>]
    /\ z_sample = [i \in ZSubs |-> None]
    /\ n_msgs = 0
    /\ n_connacks = 0
    /\ n_errors = 0
    /\ n_echoed = 0
    /\ n_samples = 0

\* The fabrics still have an input to deliver.
MoreEvents == n_msgs + n_connacks + n_errors + n_samples < MaxEvents

\* The process has not exited.
Alive == main_pc \notin {"exit_ok", "exit_err"}

\* A request can be handed to the client only while the channel has room.
HasRoom == Len(requests) < MQTT_REQUEST_CAP

----------------------------------------------------------------------------
(* main() *)

\* main.rs 51-53: one initial subscribe; `?` ends the process on an error.
MainMqttSubscribe ==
    /\ main_pc = "mqtt_subscribe"
    /\ main_i <= Len(config.subscriptions)
    /\ \/ /\ HasRoom
          /\ requests' = Append(requests, subscribe_request(config.subscriptions[main_i]))
          /\ main_i' = main_i + 1
          /\ main_pc' = main_pc
       \/ /\ main_pc' = "exit_err"
          /\ UNCHANGED <<requests, main_i>>
    /\ UNCHANGED <<config, mqtt_wire, mqtt_vars, zenoh_vars, z_chan, env_vars>>

\* main.rs 56-91: configure and open the overlay session.
MainZenohOpen ==
    /\ main_pc = "mqtt_subscribe"
    /\ main_i > Len(config.subscriptions)
    /\ \/ main_pc' = "zenoh_subscribe" /\ main_i' = 1
       \/ main_pc' = "exit_err" /\ main_i' = main_i
    /\ UNCHANGED <<config, requests, mqtt_wire, mqtt_vars, zenoh_vars,
                   z_chan, env_vars>>

\* main.rs 94-114: declare the subscriber of one relayed topic and spawn its
\* supervised loop; `?` ends the process on an error.
MainZenohSubscribe ==
    /\ main_pc = "zenoh_subscribe"
    /\ main_i <= Len(config.relayed_topics)
    /\ \/ /\ z_pc' = [z_pc EXCEPT ![main_i] = "recv"]
          /\ main_i' = main_i + 1
          /\ main_pc' = main_pc
       \/ /\ main_pc' = "exit_err"
          /\ UNCHANGED <<z_pc, main_i>>
    /\ UNCHANGED <<config, requests, mqtt_wire, mqtt_vars, z_sample,
                   z_chan, env_vars>>

\* main.rs 117-140: create the publisher table and spawn the outbound task.
MainSpawnMqtt ==
    /\ main_pc = "zenoh_subscribe"
    /\ main_i > Len(config.relayed_topics)
    /\ main_pc' = "join"
    /\ mqtt_pc' = "poll"
    /\ UNCHANGED <<config, main_i, requests, mqtt_wire, notification,
                   publish, sub_i, reissued, publisher_table, publishers, publisher,
                   next_publisher, zenoh_wire, zenoh_vars, z_chan, env_vars>>

\* main.rs 142-144: the outbound task has ended; main returns Ok.
MainJoin ==
    /\ main_pc = "join"
    /\ mqtt_pc = "stopped"
    /\ main_pc' = "exit_ok"
    /\ UNCHANGED <<config, main_i, requests, mqtt_wire, mqtt_vars,
                   zenoh_vars, z_chan, env_vars>>

----------------------------------------------------------------------------
(* The outbound task: supervisor (main.rs 119-140) and mqtt_receive_loop *)

MqttPolling == Alive /\ mqtt_pc = "poll"

\* main.rs 157-159: poll yields a message the broker delivered.
MqttPollPublish ==
    /\ MqttPolling
    /\ MoreEvents
    /\ \E topic \in MqttTopics :
          publish' = Some([topic |-> topic, payload |-> Payload(n_msgs + 1)])
    /\ n_msgs' = n_msgs + 1
    /\ mqtt_pc' = mqtt_event_arm("Publish")
    /\ notification' = IF mqtt_pc' = "poll" THEN "None" ELSE "Publish"
    /\ reissued' = <<>>
    /\ UNCHANGED <<config, main_vars, requests, mqtt_wire, sub_i,
                   publisher_table, publishers, publisher, next_publisher,
                   zenoh_wire, zenoh_vars, z_chan, n_connacks, n_errors, n_echoed,
                   n_samples>>

\* main.rs 157, 190-191: poll yields the broker's ConnAck.
MqttPollConnAck ==
    /\ MqttPolling
    /\ MoreEvents
    /\ n_connacks' = n_connacks + 1
    /\ sub_i' = 1
    /\ reissued' = <<>>
    /\ mqtt_pc' = IF Len(config.subscriptions) = 0 THEN "poll" ELSE mqtt_event_arm("ConnAck")
    /\ notification' = IF mqtt_pc' = "poll" THEN "None" ELSE "ConnAck"
    /\ UNCHANGED <<config, main_vars, requests, mqtt_wire, publish, publisher_table,
                   publishers, publisher, next_publisher, zenoh_wire, zenoh_vars,
                   z_chan, n_msgs, n_errors, n_echoed, n_samples>>

\* main.rs 157, 196-199, 207: poll yields Outgoing::Disconnect; the loop breaks
\* and the function returns Ok.
MqttPollDisconnect ==
    /\ MqttPolling
    /\ mqtt_pc' = mqtt_event_arm("Disconnect")
    /\ notification' = IF mqtt_pc' = "poll" THEN "None" ELSE "Disconnect"
    /\ reissued' = <<>>
    /\ UNCHANGED <<config, main_vars, requests, mqtt_wire, publish, sub_i,
                   publisher_table, publishers, publisher, next_publisher,
                   zenoh_wire, zenoh_vars, z_chan, env_vars>>

\* main.rs 157, 200: poll takes the oldest request off the channel, sends it to
\* the broker and yields the Outgoing event for it.
MqttPollOutgoing ==
    /\ MqttPolling
    /\ requests # <<>>
    /\ requests' = Tail(requests)
    /\ mqtt_wire' = IF Head(requests).kind = "Publish"
                    THEN Append(mqtt_wire, Head(requests))
                    ELSE mqtt_wire
    /\ mqtt_pc' = mqtt_event_arm("Outgoing")
    /\ notification' = IF mqtt_pc' = "poll" THEN "None" ELSE "Outgoing"
    /\ reissued' = <<>>
    /\ UNCHANGED <<config, main_vars, publish, sub_i, publisher_table,
                   publishers, publisher, next_publisher, zenoh_wire, zenoh_vars,
                   z_chan, env_vars>>

\* main.rs 157, 200: poll yields any other event (SubAck, PingResp, ...).
MqttPollOther ==
    /\ MqttPolling
    /\ mqtt_pc' = mqtt_event_arm("Other")
    /\ notification' = IF mqtt_pc' = "poll" THEN "None" ELSE "Other"
    /\ reissued' = <<>>
    /\ UNCHANGED <<config, main_vars, requests, mqtt_wire, publish, sub_i,
                   publisher_table, publishers, publisher, next_publisher,
                   zenoh_wire, zenoh_vars, z_chan, env_vars>>

\* main.rs 157, 202-204: poll returns Err; it is logged and the loop goes on.
MqttPollError ==
    /\ MqttPolling
    /\ MoreEvents
    /\ n_errors' = n_errors + 1
    /\ mqtt_pc' = mqtt_event_arm("Err")
    /\ notification' = IF mqtt_pc' = "poll" THEN "None" ELSE "Err"
    /\ reissued' = <<>>
    /\ UNCHANGED <<config, main_vars, requests, mqtt_wire, publish, sub_i,
                   publisher_table, publishers, publisher, next_publisher,
                   zenoh_wire, zenoh_vars, z_chan, n_msgs, n_connacks, n_echoed,
                   n_samples>>

\* main.rs 157-159, with 241-243 and configuration.rs 75-78: poll yields a
\* message the relay itself published.  The broker delivers a publish to every
\* client with a matching subscription, the client that sent it included, and
\* a configured filter (the default is "#") matches the topic.
MqttPollEcho ==
    /\ MqttPolling
    /\ n_echoed < Len(mqtt_wire)
    /\ publish' = Some([topic |-> mqtt_wire[n_echoed + 1].topic,
                        payload |-> mqtt_wire[n_echoed + 1].payload])
    /\ n_echoed' = n_echoed + 1
    /\ mqtt_pc' = mqtt_event_arm("Publish")
    /\ notification' = IF mqtt_pc' = "poll" THEN "None" ELSE "Publish"
    /\ reissued' = <<>>
    /\ UNCHANGED <<config, main_vars, requests, mqtt_wire, sub_i,
                   publisher_table, publishers, publisher, next_publisher,
                   zenoh_wire, zenoh_vars, z_chan, n_msgs, n_connacks, n_errors,
                   n_samples>>

\* The put of main.rs 169-173 / 182-186, as it reaches the overlay.
zenoh_put(key_expr, v) == [key_expr |-> key_expr, value |-> v]

\* main.rs 160-181: the Publish arm up to its first await that can end it:
\* the put on the cached publisher, or the declaration of a new one.
MqttPublishArm ==
    /\ Alive
    /\ mqtt_pc = "publish"
    /\ LET key == zenoh_topic(config.mqtt_relay_prefix, publish[1].topic)
           v == value(publish[1].payload)
       IN  IF table_get(publisher_table, key) # None
           THEN \* reuse publisher
                /\ \/ /\ zenoh_wire' = Append(zenoh_wire, zenoh_put(key, v))
                      /\ mqtt_pc' = put_res("Ok")
                   \/ /\ mqtt_pc' = put_res("Err")
                      /\ UNCHANGED zenoh_wire
                /\ publish' = None
                /\ UNCHANGED <<publishers, publisher, next_publisher>>
           ELSE \* create new publisher for fresh topic
                \/ /\ publisher' = Some(next_publisher)
                   /\ publishers' = publishers \cup {[id |-> next_publisher, key_expr |-> key]}
                   /\ next_publisher' = next_publisher + 1
                   /\ mqtt_pc' = "put_new"
                   /\ UNCHANGED <<zenoh_wire, publish>>
                \/ /\ mqtt_pc' = "Err"
                   /\ publish' = None
                   /\ UNCHANGED <<zenoh_wire, publishers, publisher, next_publisher>>
    /\ notification' = IF mqtt_pc' = "poll" THEN "None" ELSE notification
    /\ UNCHANGED <<config, main_vars, requests, mqtt_wire, sub_i,
                   reissued, publisher_table, zenoh_vars, z_chan, env_vars>>

\* The publishers still declared once `dropped` go out of scope.
drop(live, dropped) == {p \in live : p.id \notin dropped}

\* main.rs 182-187: the put on the new publisher, then the insert.  On an
\* error the function returns and the local publisher is dropped; an insert
\* over an existing key drops the publisher it replaces.
MqttPutNew ==
    /\ Alive
    /\ mqtt_pc = "put_new"
    /\ LET key == zenoh_topic(config.mqtt_relay_prefix, publish[1].topic)
           v == value(publish[1].payload)
           old == table_get(publisher_table, key)
       IN  \/ /\ zenoh_wire' = Append(zenoh_wire, zenoh_put(key, v))
              /\ publisher_table' = table_insert(publisher_table, key, publisher[1])
              /\ publishers' = drop(publishers, {old[i] : i \in 1..Len(old)})
              /\ mqtt_pc' = put_res("Ok")
           \/ /\ publishers' = drop(publishers, {publisher[1]})
              /\ mqtt_pc' = put_res("Err")
              /\ UNCHANGED <<zenoh_wire, publisher_table>>
    /\ publisher' = None
    /\ publish' = None
    /\ notification' = IF mqtt_pc' = "poll" THEN "None" ELSE notification
    /\ UNCHANGED <<config, main_vars, requests, mqtt_wire, sub_i,
                   reissued, next_publisher, zenoh_vars, z_chan, env_vars>>

\* main.rs 192-194: one subscribe of the ConnAck arm; it waits while the
\* request channel is full.  After the last one the loop polls again.
MqttConnAckArm ==
    /\ Alive
    /\ mqtt_pc = "connack"
    /\ HasRoom
    /\ requests' = Append(requests, subscribe_request(config.subscriptions[sub_i]))
    /\ reissued' = Append(reissued, config.subscriptions[sub_i])
    /\ sub_i' = IF sub_i = Len(config.subscriptions) THEN 1 ELSE sub_i + 1
    /\ mqtt_pc' = IF sub_i = Len(config.subscriptions) THEN "poll" ELSE "connack"
    /\ notification' = IF mqtt_pc' = "poll" THEN "None" ELSE notification
    /\ UNCHANGED <<config, main_vars, mqtt_wire, publish,
                   publisher_table, publishers, publisher, next_publisher,
                   zenoh_wire, zenoh_vars, z_chan, env_vars>>

\* main.rs 120-139: the supervisor matches on the loop's result.
MqttSupervisor ==
    /\ Alive
    /\ mqtt_pc \in {"Ok", "Err"}
    /\ mqtt_pc' = IF mqtt_supervisor(mqtt_pc) = "break" THEN "stopped" ELSE "poll"
    /\ notification' = IF mqtt_pc' = "poll" THEN "None" ELSE notification
    /\ UNCHANGED <<config, main_vars, requests, mqtt_wire, publish,
                   sub_i, reissued, publisher_table, publishers, publisher,
                   next_publisher, zenoh_wire, zenoh_vars, z_chan, env_vars>>

----------------------------------------------------------------------------
(* The inbound tasks: supervisor (main.rs 104-112) and zenoh_subscribe_loop *)

\* A peer puts a sample on the overlay: every declared subscriber whose key
\* expression intersects its key receives it.
ZenohPeerPut ==
    /\ Alive
    /\ main_pc \in {"zenoh_subscribe", "join"}
    /\ MoreEvents
    /\ \E key \in KeyExprs, enc \in Encodings :
          LET sample == [key_expr |-> key,
                         value |-> [payload |-> Payload(n_samples + 1), encoding |-> enc]]
          IN  z_chan' = [i \in ZSubs |->
                            IF /\ z_pc[i] # "unspawned"
                               /\ key_expr_intersects(config.relayed_topics[i].name, key)
                            THEN Append(z_chan[i], sample)
                            ELSE z_chan[i]]
    /\ n_samples' = n_samples + 1
    /\ UNCHANGED <<config, main_vars, requests, mqtt_wire, mqtt_vars, zenoh_vars,
                   n_msgs, n_connacks, n_errors, n_echoed>>

\* main.rs 239-240: receive the next sample and convert its value to bytes;
\* `?` returns the conversion error.
ZenohRecv(i) ==
    /\ Alive
    /\ z_pc[i] = "recv"
    /\ z_chan[i] # <<>>
    /\ z_chan' = [z_chan EXCEPT ![i] = recv_async(z_chan[i]).rest]
    /\ IF try_into(recv_async(z_chan[i]).sample.value) # None
       THEN /\ z_sample' = [z_sample EXCEPT ![i] = Some(recv_async(z_chan[i]).sample)]
            /\ z_pc' = [z_pc EXCEPT ![i] = "publish"]
       ELSE /\ z_sample' = [z_sample EXCEPT ![i] = None]
            /\ z_pc' = [z_pc EXCEPT ![i] = "Err"]
    /\ UNCHANGED <<config, main_vars, requests, mqtt_wire, mqtt_vars, env_vars>>

\* main.rs 241-243: hand the publish to the client, waiting while the request
\* channel is full.  The channel's receiver is the event loop, which the
\* outbound task owns and drops when it ends.
ZenohPublish(i) ==
    /\ Alive
    /\ z_pc[i] = "publish"
    /\ mqtt_pc # "stopped"
    /\ HasRoom
    /\ requests' = Append(requests,
           publish_request(i, z_sample[i][1], try_into(z_sample[i][1].value)[1],
                           config.relayed_topics[i]))
    /\ z_pc' = [z_pc EXCEPT ![i] = "recv"]
    /\ z_sample' = [z_sample EXCEPT ![i] = None]
    /\ UNCHANGED <<config, main_vars, mqtt_wire, mqtt_vars, z_chan, env_vars>>

\* main.rs 241-243: the client rejects the publish; `?` returns its error.
ZenohPublishError(i) ==
    /\ Alive
    /\ z_pc[i] = "publish"
    /\ z_pc' = [z_pc EXCEPT ![i] = "Err"]
    /\ z_sample' = [z_sample EXCEPT ![i] = None]
    /\ UNCHANGED <<config, main_vars, requests, mqtt_wire, mqtt_vars, z_chan, env_vars>>

\* main.rs 105-111: the supervisor logs the error and loops.
ZenohSupervisor(i) ==
    /\ Alive
    /\ z_pc[i] = "Err"
    /\ z_pc' = [z_pc EXCEPT ![i] =
                   IF zenoh_supervisor("Err") = "restart" THEN "recv" ELSE "stopped"]
    /\ UNCHANGED <<config, main_vars, requests, mqtt_wire, mqtt_vars, z_sample,
                   z_chan, env_vars>>

----------------------------------------------------------------------------

Main == MainMqttSubscribe \/ MainZenohOpen \/ MainZenohSubscribe \/ MainSpawnMqtt \/ MainJoin

MqttTask ==
    \/ MqttPollPublish \/ MqttPollConnAck \/ MqttPollDisconnect \/ MqttPollOutgoing
    \/ MqttPollOther \/ MqttPollError
    \/ MqttPublishArm \/ MqttPutNew \/ MqttConnAckArm \/ MqttSupervisor

ZenohTask(i) == ZenohRecv(i) \/ ZenohPublish(i) \/ ZenohSupervisor(i)

Next ==
    \/ Main
    \/ MqttTask
    \/ ZenohPeerPut
    \/ \E i \in ZSubs : ZenohTask(i) \/ ZenohPublishError(i)

Spec == Init /\ [][Next]_vars

\* The steps of main in which no fabric operation fails.
MainRuns == Main /\ main_pc' # "exit_err"

\* The runtime runs every task that can take a step (tokio's scheduler, main.rs
\* 31, 101, 119); nothing obliges a fabric to deliver an input or to fail.
FairSpec ==
    /\ Spec
    /\ WF_vars(MainRuns)
    /\ WF_vars(MqttTask)
    /\ \A i \in ZSubs : WF_vars(ZenohTask(i))

\* The relay with a broker subscription that matches the topics its inbound
\* loops publish on: the broker delivers those publishes back to it.
EchoNext == Next \/ MqttPollEcho

EchoSpec == Init /\ [][EchoNext]_vars

----------------------------------------------------------------------------
(* Properties *)

\* The publish requests among `reqs` that inbound loop i issued.
PublishesOf(i, reqs) == SelectSeq(reqs, LAMBDA r : r.kind = "Publish" /\ r.via = i)

\* What inbound loop i has published, oldest first: sent to the broker, then
\* still in the request channel.
Forwarded(i) == PublishesOf(i, mqtt_wire \o requests)

\* The n-th message of a fabric carries Payload(n), so a fabric's messages are
\* received in the order of their payloads.
InReceiveOrder(payloads) ==
    \A j, k \in 1..Len(payloads) : j < k => payloads[j][1] < payloads[k][1]

\* C1: the messages forwarded from one source (the broker stream, or one
\* overlay subscription) are published on the other fabric in the order in
\* which they were received, whatever restarts happened between them.
C1_ForwardOrder ==
    /\ InReceiveOrder([j \in 1..Len(zenoh_wire) |-> zenoh_wire[j].value.payload])
    /\ \A i \in ZSubs :
          InReceiveOrder([j \in 1..Len(Forwarded(i)) |-> Forwarded(i)[j].payload])

\* C1 witness: the first and the third broker message were put on the overlay
\* and the second was not: its forward failed and the supervisor restarted the
\* loop between the two.
C1_Witness ==
    /\ Len(zenoh_wire) = 2
    /\ zenoh_wire[1].value.payload = Payload(1)
    /\ zenoh_wire[2].value.payload = Payload(3)

\* C2: no two declared publishers have the same key expression, and the table
\* maps each key to a declared publisher of that key.
C2_OnePublisherPerKey ==
    /\ \A p, q \in publishers : p.key_expr = q.key_expr => p = q
    /\ \A k \in DOMAIN publisher_table :
          [id |-> publisher_table[k], key_expr |-> k] \in publishers

\* C2 witness: two broker messages went to the same new address, and one
\* publisher was declared for them.
C2_Witness ==
    /\ Len(zenoh_wire) = 2
    /\ zenoh_wire[1].key_expr = zenoh_wire[2].key_expr
    /\ Cardinality(publishers) = 1
    /\ next_publisher = 2

\* C3: every ConnAck the loop starts to handle leads to the state in which the
\* arm has subscribed every configured filter once, in order, and the loop
\* polls again.
C3_AllReissued ==
    [](mqtt_pc = "connack" => <>(mqtt_pc = "poll" /\ reissued = config.subscriptions))

\* C3, the part that holds: what the arm has subscribed for its event is
\* always a prefix of the configured filters (none twice, none out of order).
C3_ReissuedPrefix ==
    /\ Len(reissued) <= Len(config.subscriptions)
    /\ reissued = SubSeq(config.subscriptions, 1, Len(reissued))

\* C4: the outbound supervisor stops exactly when the loop returned Ok, the
\* loop returns Ok only on Outgoing::Disconnect, and no inbound supervisor
\* ever stops.
C4_StopOnlyOnDisconnect ==
    [][ /\ (mqtt_pc' = "stopped" /\ mqtt_pc # "stopped") => mqtt_pc = "Ok"
        /\ (mqtt_pc = "Ok" /\ mqtt_pc' # "Ok") => mqtt_pc' = "stopped"
        /\ (mqtt_pc = "Err" /\ mqtt_pc' # "Err") => mqtt_pc' # "stopped"
        /\ mqtt_pc' = "Ok" => notification' = "Disconnect"
        /\ \A i \in ZSubs : z_pc'[i] # "stopped" ]_vars

\* C4 witness: the outbound supervisor has stopped after a run that had been
\* restarted on an error (a broker message was received and not put), and an
\* inbound loop is still waiting for samples.
C4_Witness ==
    /\ mqtt_pc = "stopped"
    /\ n_msgs = 1
    /\ zenoh_wire = <<>>
    /\ \E i \in ZSubs : z_pc[i] = "recv"

\* C5: the step a supervisor takes after its loop returned an error starts
\* the loop again, whatever came before.
C5_RestartOnError ==
    [][ /\ (mqtt_pc = "Err" /\ mqtt_pc' # "Err") => mqtt_pc' = "poll"
        /\ \A i \in ZSubs : (z_pc[i] = "Err" /\ z_pc'[i] # "Err") => z_pc'[i] = "recv" ]_vars

\* C5 witness: three broker messages in a row ended the outbound loop with an
\* error (each was received, none was put) and the loop is polling again.
C5_Witness ==
    /\ n_msgs = 3
    /\ zenoh_wire = <<>>
    /\ mqtt_pc = "poll"

\* Sample number p of the overlay is waiting in subscriber i's channel.
InChan(i, p) ==
    \E j \in 1..Len(z_chan[i]) : z_chan[i][j].value.payload = Payload(p)

\* Inbound loop i holds sample number p.
Holding(i, p) == z_sample[i] # None /\ z_sample[i][1].value.payload = Payload(p)

\* Inbound loop i has published sample number p.
Published(i, p) ==
    \E j \in 1..Len(Forwarded(i)) : Forwarded(i)[j].payload = Payload(p)

\* C6: when an inbound loop has ended with an error, every sample waiting on
\* its subscription is, while the process runs, eventually published, unless
\* its own forward fails (it is consumed and not published).
C6_LaterSamplesForwarded ==
    \A i \in ZSubs, p \in 1..MaxEvents :
        []((z_pc[i] = "Err" /\ InChan(i, p))
              => <>(\/ Published(i, p)
                    \/ ~InChan(i, p) /\ ~Holding(i, p) /\ ~Published(i, p)
                    \/ ~Alive))

\* C6, the part that holds: an error return leaves the subscriber's channel as
\* it is, so no waiting sample is lost to another sample's failure.
C6_ChannelKept ==
    [][\A i \in ZSubs : z_pc'[i] = "Err" /\ z_pc[i] = "publish" => z_chan'[i] = z_chan[i]]_vars

\* Inbound loop i hands a publish to the client in this step.
Handoff(i) == z_pc[i] = "publish" /\ z_pc'[i] = "recv"

\* The request a step has appended to the request channel.
Handed == requests'[Len(requests')]

\* C7: the topic of every publish an inbound loop hands to the client is the
\* key expression of the sample it holds, with or without a configured prefix.
C7_TopicIsKeyExpr ==
    [][\A i \in ZSubs :
          Handoff(i) => /\ Len(requests') = Len(requests) + 1
                        /\ Handed.kind = "Publish"
                        /\ Handed.topic = z_sample[i][1].key_expr]_vars

\* C7 witness: with the prefix "a" configured, a sample of key "a/b" reached
\* the broker on topic "a/b".
C7_Witness ==
    /\ config.mqtt_relay_prefix = Some(<<"a">>)
    /\ \E j \in 1..Len(mqtt_wire) : mqtt_wire[j].topic = <<"a", "/", "b">>

\* C8: every put the outbound loop makes is on prefix + "/" + topic when a
\* prefix is configured and on the topic otherwise, and carries the broker
\* message's payload with the text/plain encoding.
C8_OverlayAddress ==
    [][Len(zenoh_wire') = Len(zenoh_wire) + 1 =>
          LET put == zenoh_wire'[Len(zenoh_wire')]
              m == publish[1]
          IN  /\ put.key_expr = IF config.mqtt_relay_prefix = None
                                THEN m.topic
                                ELSE config.mqtt_relay_prefix[1] \o <<"/">> \o m.topic
              /\ put.value.payload = m.payload
              /\ put.value.encoding = "TextPlain"]_vars

\* C8 witness: with the prefix "a" configured, the broker message of topic "b"
\* was put on "a/b" with its payload, as text/plain.
C8_Witness ==
    /\ config.mqtt_relay_prefix = Some(<<"a">>)
    /\ zenoh_wire # <<>>
    /\ zenoh_wire[1] = [key_expr |-> <<"a", "/", "b">>,
                        value |-> [payload |-> Payload(1), encoding |-> "TextPlain"]]

\* C9: every publish an inbound loop hands to the client has QoS AtMostOnce,
\* the retain flag of the loop's own relayed topic and the payload bytes of
\* the sample the loop holds.
C9_QosRetainPayload ==
    [][\A i \in ZSubs :
          Handoff(i) => /\ Handed.qos = "AtMostOnce"
                        /\ Handed.retain = config.relayed_topics[i].retained
                        /\ Handed.payload = z_sample[i][1].value.payload]_vars

\* C9 witness: both inbound loops have published, one retained and one not.
C9_Witness ==
    \E j, k \in 1..Len(mqtt_wire) :
        /\ mqtt_wire[j].via = 1 /\ mqtt_wire[j].retain
        /\ mqtt_wire[k].via = 2 /\ ~mqtt_wire[k].retain

\* C10 as stated: an inbound loop publishes on prefix/keyExpr when a prefix is
\* configured, and on the key expression otherwise.
C10_PrefixedTopic ==
    [][\A i \in ZSubs :
          Handoff(i) =>
              Handed.topic = IF config.mqtt_relay_prefix = None
                             THEN z_sample[i][1].key_expr
                             ELSE config.mqtt_relay_prefix[1] \o <<"/">>
                                      \o z_sample[i][1].key_expr]_vars

\* C10 as amended: every topic an inbound loop has published on is a key
\* expression a peer put a sample on, one that the loop's own subscription
\* receives: the raw key expression, also when a prefix is configured.
C10_RawKeyExprTopic ==
    \A i \in ZSubs : \A j \in 1..Len(Forwarded(i)) :
        /\ Forwarded(i)[j].topic \in KeyExprs
        /\ key_expr_intersects(config.relayed_topics[i].name, Forwarded(i)[j].topic)

\* C10 witness: with the prefix "a" configured, a sample of key "a" reached
\* the broker on topic "a".
C10_Witness ==
    /\ config.mqtt_relay_prefix = Some(<<"a">>)
    /\ \E j \in 1..Len(mqtt_wire) : mqtt_wire[j].topic = <<"a">>

\* C11: no relay loop waits anywhere but for its next event: the outbound loop
\* always returns from the ConnAck arm to polling, and every publish an inbound
\* loop starts completes (or returns its error) while the process runs.
C11_OnlyBlocksOnEvents ==
    /\ [](mqtt_pc = "connack" => <>(mqtt_pc = "poll"))
    /\ \A i \in ZSubs : [](z_pc[i] = "publish" => <>(z_pc[i] # "publish" \/ ~Alive))

\* C11, the state the loops stop in: the outbound loop waits in a subscribe of
\* the ConnAck arm for room in the request channel that only its own poll
\* empties.  No step of any task changes that state's request channel.
C11_NotStuckInConnAck == ~(mqtt_pc = "connack" /\ ~HasRoom)

\* The overlay address of the broker message being handled.
Address == zenoh_topic(config.mqtt_relay_prefix, publish[1].topic)

\* The Publish arm finds the address of its message in the table.
Cached == mqtt_pc = "publish" /\ table_get(publisher_table, Address) # None

\* The Publish arm has declared a publisher for a new address and leaves the
\* put on it, with a success or with an error.
LeavesPutNew == mqtt_pc = "put_new" /\ mqtt_pc' # "put_new"

\* C12: once the publisher of a new address is declared, the table has an
\* entry for that address when the arm is left, whether the put succeeded or
\* not; and for an address in the table the arm declares no publisher and
\* leaves the table as it is.
C12_GetOrCreateInserts ==
    [][ /\ LeavesPutNew => Address \in DOMAIN publisher_table'
        /\ Cached => /\ next_publisher' = next_publisher
                     /\ publishers' = publishers
                     /\ publisher_table' = publisher_table ]_vars

\* C12, the part that holds: a put that succeeds on a new publisher is
\* followed by the insert, and the arm for a cached address declares nothing.
C12_InsertsAfterPut ==
    [][ /\ (LeavesPutNew /\ mqtt_pc' = "poll") => Address \in DOMAIN publisher_table'
        /\ Cached => /\ next_publisher' = next_publisher
                     /\ publishers' = publishers
                     /\ publisher_table' = publisher_table ]_vars

\* The declaration of a publisher for a new address fails in this step.
DeclareFails ==
    /\ mqtt_pc = "publish"
    /\ table_get(publisher_table, Address) = None
    /\ mqtt_pc' \notin {"publish", "put_new"}

\* C13: when the declaration of a publisher fails, the table gets no entry,
\* the message is dropped, and the loop does not end: it polls the next event.
C13_DeclareFailureNotFatal ==
    [][DeclareFails => /\ publisher_table' = publisher_table
                       /\ zenoh_wire' = zenoh_wire
                       /\ publish' = None
                       /\ mqtt_pc' = "poll"]_vars

\* C13, the part that holds: the failed declaration leaves the table and the
\* overlay as they are and drops the message; the loop returns the error.
C13_DeclareFailureDropsOne ==
    [][DeclareFails => /\ publisher_table' = publisher_table
                       /\ zenoh_wire' = zenoh_wire
                       /\ publish' = None
                       /\ mqtt_pc' = "Err"]_vars

\* A put fails in this step: the arm is left from a put, on the publisher of
\* the table or on a new one, and nothing was put on the overlay.
PutFails ==
    /\ Cached \/ mqtt_pc = "put_new"
    /\ publish' = None
    /\ zenoh_wire' = zenoh_wire

\* C14: a put that fails, on a cached publisher or on a new one, ends the run
\* of the outbound loop with an error, and the only step from there is the
\* supervisor's.
C14_PutFailureFatal ==
    [][ /\ PutFails => mqtt_pc' = "Err" /\ notification' = "Publish"
        /\ (mqtt_pc = "Err" /\ mqtt_pc' # "Err") => mqtt_pc' = "poll" ]_vars

\* C14 witness: both addresses are in the table, so the third broker message
\* went to a cached publisher; its put failed and the loop has returned the
\* error.
C14_Witness ==
    /\ mqtt_pc = "Err"
    /\ n_msgs = 3
    /\ Len(zenoh_wire) = 2
    /\ Cardinality(DOMAIN publisher_table) = 2

\* C15: a step in which poll returns an error leaves the loop polling (it
\* does not return, so the supervisor has nothing to restart) and leaves the
\* table, the publishers and the request channel as they are.
C15_PollErrorNonFatal ==
    [][n_errors' # n_errors => /\ mqtt_pc = "poll"
                               /\ mqtt_pc' = "poll"
                               /\ publisher_table' = publisher_table
                               /\ publishers' = publishers
                               /\ requests' = requests]_vars

\* C15 witness: poll has returned three errors in a row, nothing else has
\* happened on either fabric, and the loop is polling.
C15_Witness ==
    /\ n_errors = 3
    /\ mqtt_pc = "poll"

\* C16: every step keeps every entry of the table, with its publisher, and
\* only the Publish arm of the outbound loop adds one.
C16_TableOnlyGrows ==
    [][ /\ \A k \in DOMAIN publisher_table :
              k \in DOMAIN publisher_table' /\ publisher_table'[k] = publisher_table[k]
        /\ publisher_table' # publisher_table =>
              notification = "Publish" /\ mqtt_pc = "put_new" ]_vars

\* C16 witness: the first message's publisher was inserted, the second
\* message ended the loop with an error, and after the restart the third
\* message's publisher was inserted beside the first.
C16_Witness ==
    /\ Cardinality(DOMAIN publisher_table) = 2
    /\ Len(zenoh_wire) = 2
    /\ zenoh_wire[1].value.payload = Payload(1)
    /\ zenoh_wire[2].value.payload = Payload(3)
    /\ mqtt_pc = "poll"

\* C17: when main returns an error, no relay loop has been spawned: neither
\* an inbound loop nor the outbound one.
C17_NoErrorExitWhileRunning ==
    main_pc = "exit_err" =>
        /\ mqtt_pc = "unspawned"
        /\ \A i \in ZSubs : z_pc[i] = "unspawned"

\* C17, the part that holds: once the outbound loop is spawned main only
\* joins it, and returns Ok when it has stopped.
C17_CleanExitAfterSpawn ==
    /\ main_pc = "exit_err" => mqtt_pc = "unspawned"
    /\ main_pc = "exit_ok" => mqtt_pc = "stopped"

\* The publishes the inbound loops have made on the broker.
BrokerPublishes == SelectSeq(mqtt_wire \o requests, LAMBDA r : r.kind = "Publish")

\* C18: the relay forwards nothing it published itself, so it has made at
\* most one forwarded publish (a put on the overlay, or a publish on the
\* broker) for each message another client published on either fabric.
C18_NoForwardBack ==
    Len(zenoh_wire) + Len(BrokerPublishes) <= n_msgs + n_samples

\* C18, the state the claim excludes: the outbound loop handles a message that
\* an inbound loop published.
C18_NeverHandlesOwnPublish ==
    ~(n_echoed > 0 /\ mqtt_pc = "publish")

\* C19: whatever the number of configured subscriptions, main eventually gets
\* past its initial subscribes and spawns the outbound loop, unless a fabric
\* operation fails.
C19_StartupCompletes ==
    <>(main_pc \in {"join", "exit_ok", "exit_err"})

\* C19, the state startup stops in: main waits in a subscribe for room in the
\* request channel, and the loop whose poll empties the channel is not spawned.
C19_NotStuckInStartup ==
    ~(/\ main_pc = "mqtt_subscribe"
      /\ main_i <= Len(config.subscriptions)
      /\ ~HasRoom
      /\ mqtt_pc = "unspawned")

\* C19, the part that holds: with at most as many subscriptions as the request
\* channel holds, the initial subscribes never wait.
C19_RoomForFewSubscriptions ==
    (main_pc = "mqtt_subscribe" /\ main_i <= Len(config.subscriptions)
        /\ Len(config.subscriptions) <= MQTT_REQUEST_CAP) => HasRoom

\* Broker message number p has been put on the overlay.
Put(p) == \E j \in 1..Len(zenoh_wire) : zenoh_wire[j].value.payload = Payload(p)

\* The outbound loop has received broker message number p, no longer holds it
\* and has not put it: its forward failed.
PutDropped(p) ==
    /\ p <= n_msgs
    /\ publish = None \/ publish[1].payload # Payload(p)
    /\ ~Put(p)

\* Sample number p was published by a peer and subscriber i's loop neither has
\* it waiting, nor holds it, nor has published it.
PublishDropped(i, p) ==
    /\ p <= n_samples
    /\ ~InChan(i, p) /\ ~Holding(i, p) /\ ~Published(i, p)

\* C20: a loop publishes only the message it has just received and holds, one
\* publish per step and never a message it has published before; a message
\* it received and dropped without publishing is not published by any later
\* step, whatever restarts follow.
C20_AtMostOnce ==
    [][ /\ Len(zenoh_wire') > Len(zenoh_wire) =>
              /\ Len(zenoh_wire') = Len(zenoh_wire) + 1
              /\ publish # None
              /\ publish[1].payload = Payload(n_msgs)
              /\ zenoh_wire'[Len(zenoh_wire')].value.payload = publish[1].payload
              /\ ~Put(n_msgs)
        /\ \A p \in 1..MaxEvents : PutDropped(p) => ~Put(p)'
        /\ \A i \in ZSubs :
              Len(Forwarded(i)') > Len(Forwarded(i)) =>
                  /\ Len(Forwarded(i)') = Len(Forwarded(i)) + 1
                  /\ z_sample[i] # None
                  /\ Handed.payload = z_sample[i][1].value.payload
                  /\ \A p \in 1..MaxEvents : Holding(i, p) => ~Published(i, p) /\ ~InChan(i, p)
        /\ \A i \in ZSubs, p \in 1..MaxEvents : PublishDropped(i, p) => ~Published(i, p)' ]_vars

\* C20 witness: the first broker message's forward failed and, after the
\* restart, the second was put and the first was not; an inbound loop has
\* published its one sample once.
C20_Witness ==
    /\ n_msgs = 2
    /\ Len(zenoh_wire) = 1
    /\ zenoh_wire[1].value.payload = Payload(2)
    /\ mqtt_pc = "poll"
    /\ n_samples = 1
    /\ Len(BrokerPublishes) = 1

====
